---- MODULE Spec2Model ----
(***************************************************************************)
(* pitchPRO: the LLM response normaliser (worker/process_job.py,           *)
(* parse_llm_response), the model client (llm_client.py, generate), the    *)
(* job processor (worker/process_job.py, process_job) and the two HTTP     *)
(* entry points (main.py, app/main.py) that submit jobs and poll status.   *)
(*                                                                         *)
(* Text is a sequence of symbols.  A symbol is one character ("{", "\"",   *)
(* "\\", ...) or an indivisible run of characters none of which is a       *)
(* brace, a bracket, a quote or a backslash, and which neither begins nor  *)
(* ends with white space ("_debug", "json", "null", a message, ...).       *)
(* Every character-level test of the source (startswith, in, strip, the    *)
(* regular expressions, the brace counter, the JSON scanner) is            *)
(* translated to the symbol level.  Of the unicode escapes two are in the  *)
(* alphabet, the escape of the underscore before "debug" and the escape    *)
(* of a lone surrogate; the interpreter's recursion limit is not modelled. *)
(***************************************************************************)
EXTENDS Integers, Sequences, FiniteSets, TLC

LBRACE == "{"
RBRACE == "}"
LBRACK == "["
RBRACK == "]"
QUOTE  == "\""
COLON  == ":"
COMMA  == ","
BSLASH == "\\"
NL     == "\n"
SP     == " "
\* the markdown fence, three backquotes (a TLA+ string cannot hold a backquote)
FENCE  == "'''"
DEBUG  == "_debug"
NOTE   == "_note"
\* the run u005fdebug: after a backslash, the escape of "_" followed by debug
U005F_DEBUG == "u005fdebug"
\* the run ud800: after a backslash, the escape of a lone high surrogate
UD800  == "ud800"
\* the lone surrogate itself, one character that UTF-8 cannot encode
SURROGATE == "<U+D800>"

\* str.strip() and the JSON scanner's white space, restricted to the alphabet
WS == {NL, SP}

(***************************************************************************)
(* Sequence helpers                                                        *)
(***************************************************************************)
Slice(s, a, b) == IF a > b THEN << >> ELSE SubSeq(s, a, b)

From(s, a) == Slice(s, a, Len(s))

StartsWith(s, p) == Len(s) >= Len(p) /\ SubSeq(s, 1, Len(p)) = p

EndsWith(s, p) == Len(s) >= Len(p) /\ SubSeq(s, Len(s) - Len(p) + 1, Len(s)) = p

Contains(s, c) == \E i \in 1..Len(s) : s[i] = c

\* str.find(c): the first index of c, 0 when absent (Python's -1)
Find(s, c) == IF Contains(s, c) THEN CHOOSE i \in 1..Len(s) : s[i] = c /\ \A k \in 1..(i-1) : s[k] # c ELSE 0

\* str.rfind(c) at or after index a
RFind(s, c, a) == IF \E i \in a..Len(s) : s[i] = c THEN CHOOSE i \in a..Len(s) : s[i] = c /\ \A k \in (i+1)..Len(s) : s[k] # c ELSE 0

RECURSIVE LStrip(_)
LStrip(s) == IF s # << >> /\ Head(s) \in WS THEN LStrip(Tail(s)) ELSE s

RECURSIVE RStrip(_)
RStrip(s) == IF s # << >> /\ s[Len(s)] \in WS THEN RStrip(SubSeq(s, 1, Len(s) - 1)) ELSE s

\* str.strip()
Strip(s) == RStrip(LStrip(s))

(***************************************************************************)
(* JSON values, as json.loads builds them                                  *)
(***************************************************************************)
JNull == [t |-> "null"]

JNum(n) == [t |-> "num", n |-> n]

JStr(s) == [t |-> "str", s |-> s]

JBool(b) == [t |-> "bool", b |-> b]

JArr(a) == [t |-> "arr", a |-> a]

\* a dict: a sequence of <<key, value>> pairs in insertion order, keys unique
JObj(m) == [t |-> "obj", m |-> m]

IsDict(v) == v.t = "obj"

HasKey(v, k) == \E i \in 1..Len(v.m) : v.m[i][1] = k

Keys(v) == {v.m[i][1] : i \in 1..Len(v.m)}

\* dict.get(k), None (JNull) when absent
Get(v, k) == IF HasKey(v, k) THEN (v.m[CHOOSE i \in 1..Len(v.m) : v.m[i][1] = k])[2] ELSE JNull

\* d[k] = x on the pair list: replace in place, or append
PutPair(m, k, x) == IF \E i \in 1..Len(m) : m[i][1] = k THEN [i \in 1..Len(m) |-> IF m[i][1] = k THEN <<k, x>> ELSE m[i]] ELSE Append(m, <<k, x>>)

\* Python truthiness of a JSON value
Truthy(v) == CASE v.t = "null" -> FALSE [] v.t = "bool" -> v.b [] v.t = "num" -> v.n # 0 [] v.t = "str" -> v.s # << >> [] v.t = "arr" -> v.a # << >> [] v.t = "obj" -> v.m # << >>

(***************************************************************************)
(* json.loads: the scanner of the standard library on the alphabet.        *)
(* A scan result is [ok, v, i]: ok = FALSE is JSONDecodeError, i the index *)
(* after the value.                                                        *)
(***************************************************************************)
ScanFail == [ok |-> FALSE, v |-> JNull, i |-> 0]

ScanOk(v, i) == [ok |-> TRUE, v |-> v, i |-> i]

RECURSIVE SkipWS(_, _)
SkipWS(s, i) == IF i <= Len(s) /\ s[i] \in WS THEN SkipWS(s, i + 1) ELSE i

\* the characters a backslash escape decodes to (no escape: << >>)
Unescape(c) == CASE c = QUOTE -> <<QUOTE>> [] c = BSLASH -> <<BSLASH>> [] c = "n" -> <<NL>> [] c = "t" -> <<"\t">> [] c = "f" -> <<"\f">> [] c = "null" -> <<NL, "ull">> [] c = "true" -> <<"\t", "rue">> [] c = "false" -> <<"\f", "alse">> [] c = U005F_DEBUG -> <<DEBUG>> [] c = UD800 -> <<SURROGATE>> [] OTHER -> << >>

\* scanstring from the index after the opening quote (strict: no control characters)
RECURSIVE ScanString(_, _, _)
ScanString(s, i, acc) ==
  IF i > Len(s) THEN ScanFail
  ELSE IF s[i] = QUOTE THEN ScanOk(acc, i + 1)
  ELSE IF s[i] = NL THEN ScanFail
  ELSE IF s[i] = BSLASH
    THEN IF i + 1 > Len(s) \/ Unescape(s[i + 1]) = << >> THEN ScanFail
         ELSE ScanString(s, i + 2, acc \o Unescape(s[i + 1]))
  ELSE ScanString(s, i + 1, Append(acc, s[i]))

Digits == <<"0", "1", "2", "3", "4", "5", "6", "7", "8", "9">>

IsDigit(c) == \E d \in 1..10 : Digits[d] = c

DigitVal(c) == (CHOOSE d \in 1..10 : Digits[d] = c) - 1

\* NUMBER_RE on integers: a lone 0, or a run of digits not starting with 0;
\* the index after the match that starts at i
RECURSIVE DigitsEnd(_, _)
DigitsEnd(s, i) == IF i <= Len(s) /\ IsDigit(s[i]) THEN DigitsEnd(s, i + 1) ELSE i

NumberEnd(s, i) == IF s[i] = "0" THEN i + 1 ELSE DigitsEnd(s, i)

\* int() of the digits s[i..j]
RECURSIVE IntOf(_, _, _)
IntOf(s, i, j) == IF j < i THEN 0 ELSE 10 * IntOf(s, i, j - 1) + DigitVal(s[j])

RECURSIVE ScanValue(_, _)
RECURSIVE ScanMembers(_, _, _)
RECURSIVE ScanItems(_, _, _)

\* JSONObject after the first key's opening position j (s[j] must be the quote)
ScanMembers(s, j, acc) ==
  IF j > Len(s) \/ s[j] # QUOTE THEN ScanFail
  ELSE LET key == ScanString(s, j + 1, << >>) IN
    IF ~key.ok THEN ScanFail
    ELSE LET c == SkipWS(s, key.i) IN
      IF c > Len(s) \/ s[c] # COLON THEN ScanFail
      ELSE LET val == ScanValue(s, SkipWS(s, c + 1)) IN
        IF ~val.ok THEN ScanFail
        ELSE LET e == SkipWS(s, val.i)
                 acc2 == PutPair(acc, key.v, val.v) IN
          IF e > Len(s) THEN ScanFail
          ELSE IF s[e] = RBRACE THEN ScanOk(JObj(acc2), e + 1)
          ELSE IF s[e] = COMMA THEN ScanMembers(s, SkipWS(s, e + 1), acc2)
          ELSE ScanFail

\* JSONArray after the first item's position j
ScanItems(s, j, acc) ==
  LET val == ScanValue(s, j) IN
    IF ~val.ok THEN ScanFail
    ELSE LET e == SkipWS(s, val.i)
             acc2 == Append(acc, val.v) IN
      IF e > Len(s) THEN ScanFail
      ELSE IF s[e] = RBRACK THEN ScanOk(JArr(acc2), e + 1)
      ELSE IF s[e] = COMMA THEN ScanItems(s, SkipWS(s, e + 1), acc2)
      ELSE ScanFail

\* scan_once at index i
ScanValue(s, i) ==
  IF i > Len(s) THEN ScanFail
  ELSE IF s[i] = QUOTE
    THEN LET r == ScanString(s, i + 1, << >>) IN IF r.ok THEN ScanOk(JStr(r.v), r.i) ELSE ScanFail
  ELSE IF s[i] = LBRACE
    THEN LET j == SkipWS(s, i + 1) IN
         IF j <= Len(s) /\ s[j] = RBRACE THEN ScanOk(JObj(<< >>), j + 1) ELSE ScanMembers(s, j, << >>)
  ELSE IF s[i] = LBRACK
    THEN LET j == SkipWS(s, i + 1) IN
         IF j <= Len(s) /\ s[j] = RBRACK THEN ScanOk(JArr(<< >>), j + 1) ELSE ScanItems(s, j, << >>)
  ELSE IF s[i] = "null" THEN ScanOk(JNull, i + 1)
  ELSE IF s[i] = "true" THEN ScanOk(JBool(TRUE), i + 1)
  ELSE IF s[i] = "false" THEN ScanOk(JBool(FALSE), i + 1)
  ELSE IF IsDigit(s[i]) THEN ScanOk(JNum(IntOf(s, i, NumberEnd(s, i) - 1)), NumberEnd(s, i))
  ELSE ScanFail

\* json.loads(s): ok = FALSE stands for raising json.JSONDecodeError
json_loads(s) ==
  LET r == ScanValue(s, SkipWS(s, 1)) IN
    IF r.ok /\ SkipWS(s, r.i) = Len(s) + 1 THEN r ELSE ScanFail

(***************************************************************************)
(* worker/process_job.py: parse_llm_response                               *)
(***************************************************************************)
\* a return value of a Python function, or an exception leaving it
Return(v) == [raised |-> FALSE, v |-> v]

\* a miss of one recovery step: control falls through to the next one
Miss == [hit |-> FALSE, v |-> JNull]

Hit(v) == [hit |-> TRUE, v |-> v]

KeyDebugResponse == <<DEBUG, "_response">>

KeyNote == <<NOTE>>

KeyRawResponse == <<"raw_response">>

\* a run of n letters x, one symbol; the runs the long texts are made of and
\* are cut to
XRun(n) == CASE n = 498 -> "x*498" [] n = 499 -> "x*499" [] n = 500 -> "x*500" [] n = 501 -> "x*501"

\* the number of characters of a symbol
SymLen(c) == CASE c = XRun(498) -> 498 [] c = XRun(499) -> 499 [] c = XRun(500) -> 500 [] c = XRun(501) -> 501 [] c = "va" -> 2 [] c = "lue" -> 3 [] c = "trailing" -> 8 [] c = "garbage" -> 7 [] c = FENCE -> 3 [] c = DEBUG -> 6 [] c = NOTE -> 5 [] c = U005F_DEBUG -> 10 [] c = UD800 -> 5 [] c = "json" -> 4 [] c = "null" -> 4 [] c = "ull" -> 3 [] c = "true" -> 4 [] c = "rue" -> 3 [] c = "false" -> 5 [] c = "alse" -> 4 [] c = "py" -> 2 [] c = "slides" -> 6 [] c = "title" -> 5 [] c = "bullets" -> 7 [] c = "tagline" -> 7 [] c = "_response" -> 9 [] c = "raw_response" -> 12 [] OTHER -> 1

\* len(text) in characters
RECURSIVE CharLen(_)
CharLen(s) == IF s = << >> THEN 0 ELSE SymLen(Head(s)) + CharLen(Tail(s))

\* DebugShortCircuit left out: every text goes to the direct parse
DebugShortCircuit_skipped(llm_out) == Miss

\* the debug short-circuit: the text test, then the parse and the key test;
\* the bare except swallows whatever the block raises
DebugShortCircuit(llm_out) ==
  IF StartsWith(Strip(llm_out), <<LBRACE>>) /\ (Contains(llm_out, DEBUG) \/ Contains(llm_out, NOTE))
  THEN LET r == json_loads(llm_out) IN
       IF r.ok /\ IsDict(r.v) /\ \E k \in Keys(r.v) : StartsWith(k, <<DEBUG>>)
       THEN Hit(JObj(<< <<KeyDebugResponse, r.v>>, << <<"note">>, JStr(<<"LLM returned debug information">>) >> >>))
       ELSE Miss
  ELSE Miss

\* the first try block: json.loads of the text as it came
DirectParse(llm_out) == LET r == json_loads(llm_out) IN IF r.ok THEN Hit(r.v) ELSE Miss

\* cleaned_output: strip, drop a leading fence (with the json tag or bare), drop a trailing fence
CleanOutput(llm_out) ==
  LET c0 == Strip(llm_out)
      c1 == IF StartsWith(c0, <<FENCE, "json">>) THEN Strip(From(c0, 3))
            ELSE IF StartsWith(c0, <<FENCE>>) THEN Strip(From(c0, 2))
            ELSE c0
  IN IF EndsWith(c1, <<FENCE>>) THEN Strip(SubSeq(c1, 1, Len(c1) - 1)) ELSE c1

\* the second try block: json.loads of the cleaned text
CleanedParse(cleaned_output) == LET r == json_loads(cleaned_output) IN IF r.ok THEN Hit(r.v) ELSE Miss

\* \{[^{}]*(?:\{[^{}]*\}[^{}]*)*\} anchored at an opening brace: k is the scan
\* position, depth 1 inside the outer braces, 2 inside a group; the index of the
\* closing brace of the match, 0 when the pattern does not match at this start
RECURSIVE NestedEnd(_, _, _)
NestedEnd(s, k, depth) ==
  IF k > Len(s) THEN 0
  ELSE IF s[k] = LBRACE THEN (IF depth = 1 THEN NestedEnd(s, k + 1, 2) ELSE 0)
  ELSE IF s[k] = RBRACE THEN (IF depth = 1 THEN k ELSE NestedEnd(s, k + 1, 1))
  ELSE NestedEnd(s, k + 1, depth)

\* re.search of the first pattern: the leftmost start that matches
SearchNested(s) ==
  LET starts == {i \in 1..Len(s) : s[i] = LBRACE /\ NestedEnd(s, i + 1, 1) > 0} IN
    IF starts = {} THEN << >>
    ELSE LET i == CHOOSE i \in starts : \A k \in starts : i <= k IN SubSeq(s, i, NestedEnd(s, i + 1, 1))

\* re.search of \{.*\} and of \{[\s\S]*\} under re.DOTALL: greedy, from the first
\* opening brace to the last closing brace after it
SearchGreedy(s) ==
  LET i == Find(s, LBRACE) IN
    IF i = 0 \/ RFind(s, RBRACE, i + 1) = 0 THEN << >> ELSE SubSeq(s, i, RFind(s, RBRACE, i + 1))

json_patterns == <<"nested", "simple", "any">>

\* re.search(pattern, text, re.DOTALL).group(), << >> when there is no match
ReSearch(pattern, s) == IF pattern = "nested" THEN SearchNested(s) ELSE SearchGreedy(s)

\* the loop over json_patterns: the first pattern whose match parses wins
RECURSIVE TryPatterns(_, _)
TryPatterns(patterns, cleaned_output) ==
  IF patterns = << >> THEN Miss
  ELSE LET m == ReSearch(Head(patterns), cleaned_output)
           r == json_loads(m) IN
       IF m # << >> /\ r.ok THEN Hit(r.v) ELSE TryPatterns(Tail(patterns), cleaned_output)

RegexExtract(cleaned_output) == TryPatterns(json_patterns, cleaned_output)

\* BraceScan without the in_string test: every brace changes the depth
RECURSIVE BraceScan_ignoring_strings(_, _, _, _, _)
BraceScan_ignoring_strings(json_str, i, brace_count, in_string, escape_next) ==
  IF i > Len(json_str) THEN 0
  ELSE IF escape_next THEN BraceScan_ignoring_strings(json_str, i + 1, brace_count, in_string, FALSE)
  ELSE IF json_str[i] = BSLASH THEN BraceScan_ignoring_strings(json_str, i + 1, brace_count, in_string, TRUE)
  ELSE IF json_str[i] = LBRACE THEN BraceScan_ignoring_strings(json_str, i + 1, brace_count + 1, in_string, FALSE)
  ELSE IF json_str[i] = RBRACE
    THEN (IF brace_count - 1 = 0 THEN i - 1 ELSE BraceScan_ignoring_strings(json_str, i + 1, brace_count - 1, in_string, FALSE))
  ELSE BraceScan_ignoring_strings(json_str, i + 1, brace_count, in_string, FALSE)

\* the brace counter over json_str from index i (1-based): last_valid_index as the
\* code computes it (0-based; 0 when the depth never returns to zero)
RECURSIVE BraceScan(_, _, _, _, _)
BraceScan(json_str, i, brace_count, in_string, escape_next) ==
  IF i > Len(json_str) THEN 0
  ELSE IF escape_next THEN BraceScan(json_str, i + 1, brace_count, in_string, FALSE)
  ELSE IF json_str[i] = BSLASH THEN BraceScan(json_str, i + 1, brace_count, in_string, TRUE)
  ELSE LET ins == IF json_str[i] = QUOTE THEN ~in_string ELSE in_string IN
       IF ~ins /\ json_str[i] = LBRACE THEN BraceScan(json_str, i + 1, brace_count + 1, ins, FALSE)
       ELSE IF ~ins /\ json_str[i] = RBRACE
         THEN (IF brace_count - 1 = 0 THEN i - 1 ELSE BraceScan(json_str, i + 1, brace_count - 1, ins, FALSE))
       ELSE BraceScan(json_str, i + 1, brace_count, ins, FALSE)

\* partial_json: json_str[:last_valid_index + 1] from the first brace of the
\* text; << >> when there is no brace or the depth never returns to zero
partial_json(original_output) ==
  LET start_idx == Find(original_output, LBRACE) IN
    IF start_idx = 0 THEN << >>
    ELSE LET json_str == From(original_output, start_idx)
             last_valid_index == BraceScan(json_str, 1, 0, FALSE, FALSE) IN
         IF last_valid_index > 0 THEN SubSeq(json_str, 1, last_valid_index + 1) ELSE << >>

\* the partial-JSON block; except Exception swallows a failed parse
PartialRecover(original_output) ==
  IF partial_json(original_output) = << >> THEN Miss
  ELSE LET r == json_loads(partial_json(original_output)) IN
       IF r.ok /\ IsDict(r.v)
       THEN Hit(JObj(PutPair(r.v.m, KeyNote, JStr(<<"Partial response - LLM output was truncated">>))))
       ELSE Miss

PreviewLimit == 500

\* the first n characters of a symbol longer than n: a shorter run
SymCut(c, n) == CASE c \in {XRun(499), XRun(500), XRun(501)} -> XRun(n)

\* text[:n] in characters
RECURSIVE CharPrefix(_, _)
CharPrefix(s, n) ==
  IF s = << >> \/ n = 0 THEN << >>
  ELSE IF SymLen(Head(s)) <= n THEN <<Head(s)>> \o CharPrefix(Tail(s), n - SymLen(Head(s)))
  ELSE <<SymCut(Head(s), n)>>

\* Fallback with the preview cut from 500 characters on, not from 501
Fallback_cut_at_limit(original_output) ==
  JObj(<< <<KeyRawResponse, JStr(original_output)>>,
          << <<"note">>, JStr(<<"Could not parse complete JSON from LLM response">>) >>,
          << <<"response_preview">>, JStr(IF CharLen(original_output) >= PreviewLimit THEN Append(CharPrefix(original_output, PreviewLimit), "...") ELSE original_output) >>,
          << <<"response_length">>, JNum(CharLen(original_output)) >> >>)

\* the final fallback record
Fallback(original_output) ==
  JObj(<< <<KeyRawResponse, JStr(original_output)>>,
          << <<"note">>, JStr(<<"Could not parse complete JSON from LLM response">>) >>,
          << <<"response_preview">>, JStr(IF CharLen(original_output) > PreviewLimit THEN Append(CharPrefix(original_output, PreviewLimit), "...") ELSE original_output) >>,
          << <<"response_length">>, JNum(CharLen(original_output)) >> >>)

\* parse_llm_response(llm_out): the steps in the order of the code
parse_llm_response(llm_out) ==
  LET dbg == DebugShortCircuit(llm_out) IN
  IF dbg.hit THEN Return(dbg.v)
  ELSE LET direct == DirectParse(llm_out) IN
  IF direct.hit THEN Return(direct.v)
  ELSE LET cleaned_output == CleanOutput(llm_out)
           cl == CleanedParse(cleaned_output) IN
  IF cl.hit THEN Return(cl.v)
  ELSE LET rx == RegexExtract(cleaned_output) IN
  IF rx.hit THEN Return(rx.v)
  ELSE LET pr == PartialRecover(llm_out) IN
  IF pr.hit THEN Return(pr.v)
  ELSE Return(Fallback(llm_out))

(***************************************************************************)
(* json.dumps with the default separators, as llm_client.py calls it       *)
(***************************************************************************)
\* a string's characters with quote, backslash and control characters escaped;
\* the only non-ASCII character of the alphabet, the lone surrogate, reaches
\* json.dumps in process_job alone, which passes ensure_ascii=False
RECURSIVE EscapeChars(_)
EscapeChars(s) ==
  IF s = << >> THEN << >>
  ELSE (CASE Head(s) = QUOTE -> <<BSLASH, QUOTE>> [] Head(s) = BSLASH -> <<BSLASH, BSLASH>> [] Head(s) = NL -> <<BSLASH, "n">> [] Head(s) = "\t" -> <<BSLASH, "t">> [] Head(s) = "\f" -> <<BSLASH, "f">> [] OTHER -> <<Head(s)>>) \o EscapeChars(Tail(s))

DumpStr(s) == <<QUOTE>> \o EscapeChars(s) \o <<QUOTE>>

\* the decimal digits of a natural number
RECURSIVE DumpNum(_)
DumpNum(n) == IF n < 10 THEN <<Digits[n + 1]>> ELSE Append(DumpNum(n \div 10), Digits[(n % 10) + 1])

RECURSIVE json_dumps(_)
RECURSIVE DumpItems(_, _)
RECURSIVE DumpPairs(_, _)

DumpItems(a, i) ==
  IF i > Len(a) THEN << >>
  ELSE (IF i > 1 THEN <<COMMA, SP>> ELSE << >>) \o json_dumps(a[i]) \o DumpItems(a, i + 1)

DumpPairs(m, i) ==
  IF i > Len(m) THEN << >>
  ELSE (IF i > 1 THEN <<COMMA, SP>> ELSE << >>) \o DumpStr(m[i][1]) \o <<COLON, SP>> \o json_dumps(m[i][2]) \o DumpPairs(m, i + 1)

json_dumps(v) ==
  CASE v.t = "null" -> <<"null">>
    [] v.t = "bool" -> (IF v.b THEN <<"true">> ELSE <<"false">>)
    [] v.t = "num" -> DumpNum(v.n)
    [] v.t = "str" -> DumpStr(v.s)
    [] v.t = "arr" -> <<LBRACK>> \o DumpItems(v.a, 1) \o <<RBRACK>>
    [] v.t = "obj" -> <<LBRACE>> \o DumpPairs(v.m, 1) \o <<RBRACE>>

\* json.dumps(v, indent=2): one item per line, two spaces per nesting level
RECURSIVE Spaces(_)
Spaces(n) == IF n = 0 THEN << >> ELSE Append(Spaces(n - 1), SP)

RECURSIVE json_dumps_indent(_, _)
RECURSIVE IndentItems(_, _, _)
RECURSIVE IndentPairs(_, _, _)

IndentItems(a, i, level) ==
  IF i > Len(a) THEN << >>
  ELSE (IF i > 1 THEN <<COMMA>> ELSE << >>) \o <<NL>> \o Spaces(2 * level) \o json_dumps_indent(a[i], level) \o IndentItems(a, i + 1, level)

IndentPairs(m, i, level) ==
  IF i > Len(m) THEN << >>
  ELSE (IF i > 1 THEN <<COMMA>> ELSE << >>) \o <<NL>> \o Spaces(2 * level) \o DumpStr(m[i][1]) \o <<COLON, SP>> \o json_dumps_indent(m[i][2], level) \o IndentPairs(m, i + 1, level)

json_dumps_indent(v, level) ==
  CASE v.t = "arr" /\ v.a # << >> -> <<LBRACK>> \o IndentItems(v.a, 1, level + 1) \o <<NL>> \o Spaces(2 * level) \o <<RBRACK>>
    [] v.t = "obj" /\ v.m # << >> -> <<LBRACE>> \o IndentPairs(v.m, 1, level + 1) \o <<NL>> \o Spaces(2 * level) \o <<RBRACE>>
    [] OTHER -> json_dumps(v)

(***************************************************************************)
(* The raw texts the normaliser is run on                                  *)
(***************************************************************************)
\* the longest text of the exhaustive part
MaxShortLen == 4

\* the deepest nesting of a generated JSON value
MaxDepth == 3

ShortAlphabet == {LBRACE, RBRACE, LBRACK, RBRACK, QUOTE, BSLASH, "1", "null"}

RECURSIVE SeqsUpTo(_, _)
SeqsUpTo(S, n) == IF n = 0 THEN {<< >>} ELSE SeqsUpTo(S, n - 1) \cup {Append(q, c) : q \in {x \in SeqsUpTo(S, n - 1) : Len(x) = n - 1}, c \in S}

ShortTexts == SeqsUpTo(ShortAlphabet, MaxShortLen)

Scalars == {JNum(1), JNull, JStr(<<"a">>), JStr(<<RBRACE>>)}

GenKeys == {<<"a">>, <<DEBUG, "a">>}

\* JSON values of nesting depth at most d: scalars, arrays of at most one item,
\* objects of at most one member
RECURSIVE Values(_)
Values(d) ==
  IF d = 0 THEN Scalars
  ELSE Values(d - 1) \cup {JArr(<< >>), JObj(<< >>)} \cup {JArr(<<v>>) : v \in Values(d - 1)}
       \cup {JObj(<< <<k, v>> >>) : k \in GenKeys, v \in Values(d - 1)}

\* objects of two members: a marker or plain key, then a slides list
TwoKeyObjects == {JObj(<< <<k, v>>, << <<"slides">>, JArr(a)>> >>) : k \in {<<DEBUG>>, <<NOTE>>, <<"a">>, KeyRawResponse}, v \in {JNum(1), JNull}, a \in {<< >>, <<JNum(1)>>}}

Objects == {v \in Values(MaxDepth) : IsDict(v)} \cup TwoKeyObjects

\* what precedes the object: nothing, white space, a fence (bare, tagged json,
\* tagged otherwise), prose
Prefixes == {<< >>, <<NL>>, <<FENCE>>, <<FENCE, NL>>, <<FENCE, "json">>, <<FENCE, "json", NL>>, <<FENCE, "py", NL>>, <<"a", SP>>}

Suffixes == {<< >>, <<FENCE>>, <<NL, FENCE>>, <<SP, "a">>, <<SP, RBRACE>>}

ComposedTexts == {p \o json_dumps(o) \o q : p \in Prefixes, o \in Objects, q \in Suffixes}

\* objects written with a unicode escape: in a key that decodes to the debug
\* marker or to a lone surrogate, or in a value
EscapedBodies ==
  {<<LBRACE, QUOTE, BSLASH, e, QUOTE, COLON, SP, "1">> \o rest :
     e \in {U005F_DEBUG, UD800},
     rest \in {<<RBRACE>>, <<COMMA, SP, QUOTE, "slides", QUOTE, COLON, SP, LBRACK, "1", RBRACK, RBRACE>>}}
  \cup {<<LBRACE, QUOTE, "a", QUOTE, COLON, SP, QUOTE, BSLASH, e, QUOTE, RBRACE>> : e \in {U005F_DEBUG, UD800}}

EscapedTexts == {p \o b \o q : p \in Prefixes, b \in EscapedBodies, q \in Suffixes}

\* an object with a closing brace inside a string, followed by prose
QuotedBraceObject == <<LBRACE, QUOTE, "a", QUOTE, COLON, SP, QUOTE, "va", RBRACE, "lue", QUOTE, COMMA, SP, QUOTE, "b", QUOTE, COLON, SP, "1", RBRACE>>

QuotedBraceText == QuotedBraceObject \o <<SP, "trailing", SP, "garbage">>

\* an object cut off inside its slides list
UnterminatedText == <<LBRACE, QUOTE, "tagline", QUOTE, COLON, SP, QUOTE, "x", QUOTE, COMMA, SP, QUOTE, "slides", QUOTE, COLON, SP, LBRACK>>

\* texts of 500, 501 and 502 characters, with and without an opening brace
LongTexts == {<<LBRACE, XRun(499)>>, <<LBRACE, XRun(500)>>, <<LBRACE, XRun(501)>>, <<XRun(500)>>, <<XRun(501)>>, <<LBRACE, QUOTE, XRun(499)>>}

Str(c) == JStr(<<c>>)

Key(c) == <<c>>

\* a pitch with one complete slide, as the prompt asks for it
Slide == JObj(<< <<Key("title"), Str("t")>>, <<Key("bullets"), JArr(<<Str("b")>>)>> >>)

Pitch == JObj(<< <<Key("tagline"), Str("x")>>, <<Key("slides"), JArr(<<Slide>>)>> >>)

PitchText == json_dumps(Pitch)

\* answers cut short by the token budget: every proper non-empty prefix of the
\* text of the pitch, of a pitch with two slides, and of each generated object
TruncatedTexts ==
  {SubSeq(t, 1, n) : <<t, n>> \in UNION {{<<json_dumps(o), k>> : k \in 1..(Len(json_dumps(o)) - 1)} :
                                            o \in Objects \cup {Pitch, JObj(<< <<Key("slides"), JArr(<<Slide, Slide>>)>> >>)}}}

Texts == ShortTexts \cup ComposedTexts \cup EscapedTexts \cup {QuotedBraceText, UnterminatedText} \cup LongTexts \cup TruncatedTexts

(***************************************************************************)
(* State                                                                   *)
(***************************************************************************)
VARIABLES
  raw,          \* normaliser harness: the text handed to parse_llm_response
  res,          \* normaliser harness: what the call returned
  phase,        \* normaliser harness: "off", "ready", "parsed", "reparsed"
  again,        \* normaliser harness: what parsing the serialised result returned
  cut,          \* normaliser harness: the substring the brace counter selects in raw
  env,          \* os.environ and import state: GEMINI_MODEL, PPTX_AVAILABLE
  returned,     \* the job ids create_pitch has returned to a caller
  entry,        \* per job: the entry point that created it ("none", "main", "app")
  pc,           \* per job: the position of its process_job execution
  status_json,  \* per job: output/<id>/status.json
  raw_llm,      \* per job: output/<id>/raw_llm.txt
  pitch_json,   \* per job: output/<id>/pitch.json
  pptx_file,    \* per job: whether output/<id>/pitch.pptx exists
  status_log,   \* per job: the statuses written to status.json, in order
  gen,          \* per job: the state of its generate call
  llm_out,      \* per job: process_job's llm_out
  parsed,       \* per job: process_job's parsed
  pptx_path,    \* per job: process_job's pptx_path, as bool(pptx_path)
  rd            \* the status poller: one HTTP GET at a time

harnessVars == <<raw, res, phase, cut, again>>

fileVars == <<status_json, raw_llm, pitch_json, pptx_file, status_log>>

jobVars == <<returned, entry, pc, gen, llm_out, parsed, pptx_path>>

vars == <<raw, res, phase, cut, again, env, returned, entry, pc, status_json, raw_llm, pitch_json, pptx_file, status_log, gen, llm_out, parsed, pptx_path, rd>>

JobIds == {"j1", "j2"}

\* a file: absent, empty (opened for writing, nothing flushed yet) or full
Absent(d) == [st |-> "absent", data |-> d]

Opened(d) == [st |-> "empty", data |-> d]

Full(d) == [st |-> "full", data |-> d]

\* pathlib.Path.exists()
Exists(f) == f.st # "absent"

(***************************************************************************)
(* llm_client.py                                                           *)
(***************************************************************************)
\* os.getenv(GEMINI_MODEL_ENV): None when unset
NoneStr == [none |-> TRUE, s |-> << >>]

SomeStr(s) == [none |-> FALSE, s |-> s]

EnvModels == {NoneStr, SomeStr(<< >>), SomeStr(<<"gemini">>), SomeStr(<<"models/", "gemini">>)}

\* _normalize_model(model_name)
normalize_model(model_name) ==
  LET m1 == IF model_name.none \/ model_name.s = << >>
            THEN (IF env.model.none THEN << >> ELSE env.model.s)
            ELSE model_name.s
      m2 == IF ~StartsWith(m1, <<"models/">>) THEN <<"models/">> \o m1 ELSE m1
  IN Strip(m2)

\* the diagnostic strings _try_genai_library returns for a response without text
DiagBlocked == json_dumps(JObj(<< <<<<DEBUG, "_blocked">>, JStr(<<"Content blocked: ", "reason">>)>>, <<Key("note"), Str("Gemini blocked the prompt content")>> >>))

DiagStop == json_dumps(JObj(<< <<<<DEBUG, "_empty">>, Str("Model returned STOP with no content")>>, <<Key("note"), Str("Try a different prompt or model")>> >>))

DiagSafety == json_dumps(JObj(<< <<<<DEBUG, "_safety">>, Str("Content blocked by safety filters")>>, <<Key("note"), Str("Prompt triggered safety filters")>> >>))

DiagNoContent(model, has_candidates, candidates_count) ==
  json_dumps(JObj(<< <<<<DEBUG, "_no_content">>, JObj(<< <<Key("model"), JStr(model)>>, <<Key("has_candidates"), JBool(has_candidates)>>, <<Key("candidates_count"), JNum(candidates_count)>> >>)>>,
                     <<Key("note"), Str("Model returned no content - try simpler prompt")>> >>))

\* the diagnostic string _try_rest_generate returns for a 200 response without text
DiagRestEmpty(candidates_count, has_parts) ==
  json_dumps(JObj(<< <<<<DEBUG, "_rest_empty">>, JObj(<< <<Key("status_code"), JNum(200)>>, <<Key("candidates_count"), JNum(candidates_count)>>, <<Key("has_parts"), JBool(has_parts)>> >>)>>,
                     <<Key("note"), Str("REST API returned empty content")>> >>))

\* a function's outcome when it returns text: the text, or the exception's message
TextReturn(t) == [raised |-> FALSE, text |-> t]

TextRaise(e) == [raised |-> TRUE, text |-> e]

\* the texts a model answers with: a pitch with one complete slide, the same
\* fenced, the same cut short by the token budget, a pitch whose second slide has
\* no bullets, a pitch whose only slide has no bullets, prose, a bare JSON null,
\* an object carrying a debug marker, and an object whose tagline is the escape
\* of a lone surrogate
JobTexts == {PitchText,
             <<FENCE, "json", NL>> \o PitchText \o <<NL, FENCE>>,
             SubSeq(PitchText, 1, Len(PitchText) - 3),
             json_dumps(JObj(<< <<Key("slides"), JArr(<<Slide, JObj(<< <<Key("title"), Str("t")>> >>)>>)>> >>)),
             json_dumps(JObj(<< <<Key("slides"), JArr(<<JObj(<< <<Key("title"), Str("t")>> >>)>>)>> >>)),
             <<"a">>,
             <<"null">>,
             json_dumps(JObj(<< <<<<DEBUG>>, JNum(1)>>, <<Key("slides"), JArr(<<Slide>>)>> >>)),
             <<LBRACE, QUOTE, "tagline", QUOTE, COLON, SP, QUOTE, BSLASH, UD800, QUOTE, RBRACE>>}

\* the response object of the SDK: per candidate the text of its parts and its
\* finish_reason; whether prompt_feedback carries a block_reason
Candidate(text, finish_reason) == [text |-> text, finish_reason |-> finish_reason]

SdkResponse(candidates, blocked) == [candidates |-> candidates, blocked |-> blocked]

FinishStop == 1

FinishSafety == 3

\* the reasons a candidate can finish with: STOP, SAFETY, and 2 for every reason
\* the loop has no branch for
FinishReasons == {FinishStop, 2, FinishSafety}

SdkResponses == {SdkResponse(<<Candidate(t, FinishStop)>>, FALSE) : t \in JobTexts}
                \cup {SdkResponse(<< >>, TRUE), SdkResponse(<< >>, FALSE)}
                \cup {SdkResponse(<<Candidate(<< >>, f)>>, FALSE) : f \in FinishReasons}

\* _extract_text_from_response: the first candidate part with text, stripped; << >> for None
extract_text_from_response(response) ==
  LET with_text == {i \in 1..Len(response.candidates) : response.candidates[i].text # << >>} IN
    IF with_text = {} THEN << >>
    ELSE Strip(response.candidates[CHOOSE i \in with_text : \A k \in with_text : i <= k].text)

\* the finish_reason loop: the first candidate whose reason is STOP or SAFETY decides
RECURSIVE FinishDiag(_, _)
FinishDiag(candidates, i) ==
  IF i > Len(candidates) THEN << >>
  ELSE IF candidates[i].finish_reason = FinishStop THEN DiagStop
  ELSE IF candidates[i].finish_reason = FinishSafety THEN DiagSafety
  ELSE FinishDiag(candidates, i + 1)

\* _try_genai_library once generate_content has returned a response
sdk_text_or_diagnostic(response, model) ==
  LET text == extract_text_from_response(response) IN
    IF text # << >> THEN text
    ELSE IF response.blocked THEN DiagBlocked
    ELSE IF FinishDiag(response.candidates, 1) # << >> THEN FinishDiag(response.candidates, 1)
    ELSE DiagNoContent(model, TRUE, Len(response.candidates))

\* the JSON body of a REST answer: candidates (the key may be missing), each with
\* content.parts (either key may be missing), each part with text (may be missing)
RestPart(has_text, text) == [has_text |-> has_text, text |-> text]

RestCandidate(has_content, has_parts, parts) == [has_content |-> has_content, has_parts |-> has_parts, parts |-> parts]

RestResult(has_candidates, candidates) == [has_candidates |-> has_candidates, candidates |-> candidates]

RestResults == {RestResult(TRUE, <<RestCandidate(TRUE, TRUE, <<RestPart(TRUE, t)>>)>>) : t \in {PitchText, <<NL>>}}
               \cup {RestResult(FALSE, << >>), RestResult(TRUE, << >>),
                     RestResult(TRUE, <<RestCandidate(FALSE, FALSE, << >>)>>),
                     RestResult(TRUE, <<RestCandidate(TRUE, TRUE, << >>)>>),
                     RestResult(TRUE, <<RestCandidate(TRUE, TRUE, <<RestPart(FALSE, << >>)>>)>>)}

RestStatusCodes == {200, 500}

\* the text of a 200 body, << >> when the chain of tests finds none
rest_extract_text(result) ==
  IF result.has_candidates /\ result.candidates # << >>
  THEN LET candidate == result.candidates[1] IN
       IF candidate.has_content /\ candidate.has_parts /\ candidate.parts # << >> /\ candidate.parts[1].has_text
       THEN Strip(candidate.parts[1].text)
       ELSE << >>
  ELSE << >>

\* _try_rest_generate once requests.post has returned: every exception of the
\* try block, the status error included, is re-raised as RuntimeError
rest_text_or_diagnostic(status_code, result) ==
  IF status_code = 200
  THEN IF rest_extract_text(result) # << >> THEN TextReturn(rest_extract_text(result))
       ELSE IF result.has_candidates /\ result.candidates = << >>
         THEN TextRaise(<<"REST request failed: ", "list index out of range">>)
       ELSE TextReturn(DiagRestEmpty(Len(result.candidates),
                                     result.has_candidates /\ result.candidates[1].has_content /\ result.candidates[1].has_parts /\ result.candidates[1].parts # << >>))
  ELSE TextRaise(<<"REST request failed: ", "REST API error">>)

(***************************************************************************)
(* worker/process_job.py: safe_write, create_pptx_from_slides, the status  *)
(* records                                                                 *)
(***************************************************************************)
\* safe_write, first half: open(path, "w") creates or truncates the file
safe_write_open(blank) == Opened(blank)

\* safe_write, second half: f.write(content) and the close that flushes it
safe_write_close(content) == Full(content)

\* whether f.write(content) can encode content as UTF-8; when it cannot it
\* raises UnicodeEncodeError and the with block closes the file empty
Encodable(content) == ~Contains(content, SURROGATE)

NoData == JNull

NoText == << >>

StatusQueued(j) == JObj(<< <<Key("job_id"), Str(j)>>, <<Key("status"), Str("queued")>>, <<Key("idea"), Str("idea")>> >>)

StatusRunning(j) == JObj(<< <<Key("job_id"), Str(j)>>, <<Key("status"), Str("running")>>, <<Key("started_at"), Str("t0")>>, <<Key("params"), JObj(<< <<Key("idea"), Str("idea")>> >>)>> >>)

\* StatusError without the time the job finished
StatusError_unfinished(j, error_msg) == JObj(<< <<Key("job_id"), Str(j)>>, <<Key("status"), Str("error")>>, <<Key("error"), JStr(error_msg)>> >>)

StatusError(j, error_msg) == JObj(<< <<Key("job_id"), Str(j)>>, <<Key("status"), Str("error")>>, <<Key("error"), JStr(error_msg)>>, <<Key("finished_at"), Str("t1")>> >>)

StatusDone(j, has_pptx) == JObj(<< <<Key("job_id"), Str(j)>>, <<Key("status"), Str("done")>>, <<Key("finished_at"), Str("t1")>>, <<Key("duration_seconds"), Str("t1 - t0")>>, <<Key("has_pptx"), JBool(has_pptx)>> >>)

\* error_msg = f"LLM generation failed: {e}"
ErrorMsg(e) == <<"LLM generation failed: ">> \o e

\* a slide create_pptx_from_slides counts as valid: a dict with a truthy title
\* and truthy bullets that can be sliced (a list or a string)
ValidSlide(slide_data) ==
  /\ IsDict(slide_data)
  /\ Truthy(Get(slide_data, Key("title")))
  /\ Truthy(Get(slide_data, Key("bullets")))
  /\ Get(slide_data, Key("bullets")).t \in {"arr", "str"}

valid_slides_count(slides) == Cardinality({i \in 1..Len(slides) : ValidSlide(slides[i])})

\* create_pptx_from_slides without the test of valid_slides_count: the file is
\* saved even when every slide was skipped
create_pptx_from_slides_uncounted(slides, lib_raises) ==
  IF ~env.pptx_available THEN FALSE
  ELSE ~lib_raises

\* create_pptx_from_slides as bool(its return value): None when python-pptx is
\* missing, when the library raises (lib_raises), when no slide is valid
create_pptx_from_slides(slides, lib_raises) ==
  IF ~env.pptx_available THEN FALSE
  ELSE IF lib_raises THEN FALSE
  ELSE valid_slides_count(slides) > 0

\* the test that guards the call of create_pptx_from_slides
WantsPptx(p) ==
  /\ IsDict(p)
  /\ Get(p, Key("slides")).t = "arr"
  /\ Truthy(Get(p, Key("slides")))
  /\ ~Truthy(Get(p, KeyNote))
  /\ ~Truthy(Get(p, KeyDebugResponse))

(***************************************************************************)
(* Initial state                                                           *)
(***************************************************************************)
GenIdle == [model |-> << >>, attempts |-> << >>, sdk_raised |-> FALSE, rest_raised |-> FALSE, config_raised |-> FALSE, error |-> << >>,
            rest_status |-> 0, rest_text |-> << >>]

RdIdle == [pc |-> "idle", impl |-> "none", job |-> "j1", known |-> FALSE, status_data |-> NoData, download_url |-> FALSE, code |-> 0, body |-> NoData]

JobsInit ==
  /\ returned = {}
  /\ entry = [j \in JobIds |-> "none"]
  /\ pc = [j \in JobIds |-> "none"]
  /\ status_json = [j \in JobIds |-> Absent(NoData)]
  /\ raw_llm = [j \in JobIds |-> Absent(NoText)]
  /\ pitch_json = [j \in JobIds |-> Absent(NoText)]
  /\ pptx_file = [j \in JobIds |-> FALSE]
  /\ status_log = [j \in JobIds |-> << >>]
  /\ gen = [j \in JobIds |-> GenIdle]
  /\ llm_out = [j \in JobIds |-> NoText]
  /\ parsed = [j \in JobIds |-> JNull]
  /\ pptx_path = [j \in JobIds |-> FALSE]
  /\ rd = RdIdle

Init ==
  /\ raw = << >> /\ res = Return(JNull) /\ phase = "off" /\ cut = << >> /\ again = Return(JNull)
  /\ env \in [model : EnvModels, pptx_available : BOOLEAN]
  /\ JobsInit

(***************************************************************************)
(* main.py and app/main.py: create_pitch                                   *)
(***************************************************************************)
\* one job is followed from its submission; the other id stays unknown
NoJobYet == \A j \in JobIds : entry[j] = "none"

\* main.py create_pitch: a fresh id, the background task, the response;
\* main.py sets GEMINI_MODEL when it is imported
create_pitch_main(j) ==
  /\ NoJobYet
  /\ env.model = SomeStr(<<"gemini">>)
  /\ entry' = [entry EXCEPT ![j] = "main"]
  /\ pc' = [pc EXCEPT ![j] = "scheduled"]
  /\ returned' = returned \cup {j}
  /\ UNCHANGED <<harnessVars, env, fileVars, gen, llm_out, parsed, pptx_path, rd>>

\* app/main.py create_pitch, _write_status: open(status.json, "w")
create_pitch_app_open(j) ==
  /\ NoJobYet
  /\ entry' = [entry EXCEPT ![j] = "app"]
  /\ pc' = [pc EXCEPT ![j] = "app_write"]
  /\ status_json' = [status_json EXCEPT ![j] = Opened(NoData)]
  /\ UNCHANGED <<harnessVars, env, returned, raw_llm, pitch_json, pptx_file, status_log, gen, llm_out, parsed, pptx_path, rd>>

\* app/main.py create_pitch, _write_status: json.dump of the queued record
create_pitch_app_write(j) ==
  /\ pc[j] = "app_write"
  /\ status_json' = [status_json EXCEPT ![j] = Full(StatusQueued(j))]
  /\ status_log' = [status_log EXCEPT ![j] = Append(@, "queued")]
  /\ pc' = [pc EXCEPT ![j] = "app_enqueue"]
  /\ UNCHANGED <<harnessVars, env, returned, entry, raw_llm, pitch_json, pptx_file, gen, llm_out, parsed, pptx_path, rd>>

\* app/main.py create_pitch: enqueue (RQ or BackgroundTasks) and the response;
\* the task it names, process_job_simple, is taken to be process_job, the one
\* job function worker/process_job.py defines
create_pitch_app_return(j) ==
  /\ pc[j] = "app_enqueue"
  /\ pc' = [pc EXCEPT ![j] = "scheduled"]
  /\ returned' = returned \cup {j}
  /\ UNCHANGED <<harnessVars, env, entry, fileVars, gen, llm_out, parsed, pptx_path, rd>>

\* worker/process_job.py run as a script: process_job is called directly, in
\* whatever environment the script was started
process_job_script(j) ==
  /\ NoJobYet
  /\ entry' = [entry EXCEPT ![j] = "script"]
  /\ pc' = [pc EXCEPT ![j] = "scheduled"]
  /\ UNCHANGED <<harnessVars, env, returned, fileVars, gen, llm_out, parsed, pptx_path, rd>>

(***************************************************************************)
(* worker/process_job.py: process_job, with llm_client.generate inlined    *)
(* at its call                                                             *)
(***************************************************************************)
\* the initial status: safe_write opens status.json
pj_running_open(j) ==
  /\ pc[j] = "scheduled"
  /\ status_json' = [status_json EXCEPT ![j] = safe_write_open(NoData)]
  /\ pc' = [pc EXCEPT ![j] = "running_write"]
  /\ UNCHANGED <<harnessVars, env, returned, entry, raw_llm, pitch_json, pptx_file, status_log, gen, llm_out, parsed, pptx_path, rd>>

\* the initial status: the running record is written
pj_running_write(j) ==
  /\ pc[j] = "running_write"
  /\ status_json' = [status_json EXCEPT ![j] = safe_write_close(StatusRunning(j))]
  /\ status_log' = [status_log EXCEPT ![j] = Append(@, "running")]
  /\ pc' = [pc EXCEPT ![j] = "generate"]
  /\ UNCHANGED <<harnessVars, env, returned, entry, raw_llm, pitch_json, pptx_file, gen, llm_out, parsed, pptx_path, rd>>

\* generate: the model name and the configuration test
generate_start(j) ==
  /\ pc[j] = "generate"
  /\ LET model == normalize_model(env.model) IN
       IF model = << >>
       THEN /\ gen' = [gen EXCEPT ![j].config_raised = TRUE, ![j].error = <<"Set GEMINI_MODEL env var (e.g. 'gemini-2.5-flash')">>]
            /\ pc' = [pc EXCEPT ![j] = "error_raw_open"]
       ELSE /\ gen' = [gen EXCEPT ![j].model = model]
            /\ pc' = [pc EXCEPT ![j] = "sdk"]
  /\ UNCHANGED <<harnessVars, env, returned, entry, fileVars, llm_out, parsed, pptx_path, rd>>

\* generate: _try_genai_library raises (import, API key, the call itself)
generate_sdk_raises(j) ==
  /\ pc[j] = "sdk"
  /\ gen' = [gen EXCEPT ![j].attempts = Append(@, "sdk"), ![j].sdk_raised = TRUE]
  /\ pc' = [pc EXCEPT ![j] = "rest"]
  /\ UNCHANGED <<harnessVars, env, returned, entry, fileVars, llm_out, parsed, pptx_path, rd>>

\* generate_sdk_returns with an empty response treated as a failure of the
\* SDK path: the REST path is tried although nothing was raised
generate_sdk_returns_or_falls_back(j) ==
  /\ pc[j] = "sdk"
  /\ \E response \in SdkResponses :
       IF extract_text_from_response(response) # << >>
       THEN /\ llm_out' = [llm_out EXCEPT ![j] = sdk_text_or_diagnostic(response, gen[j].model)]
            /\ pc' = [pc EXCEPT ![j] = "raw_open"]
       ELSE /\ UNCHANGED llm_out
            /\ pc' = [pc EXCEPT ![j] = "rest"]
  /\ gen' = [gen EXCEPT ![j].attempts = Append(@, "sdk")]
  /\ UNCHANGED <<harnessVars, env, returned, entry, fileVars, parsed, pptx_path, rd>>

\* generate: _try_genai_library returns text or a diagnostic string
generate_sdk_returns(j) ==
  /\ pc[j] = "sdk"
  /\ \E response \in SdkResponses :
       llm_out' = [llm_out EXCEPT ![j] = sdk_text_or_diagnostic(response, gen[j].model)]
  /\ gen' = [gen EXCEPT ![j].attempts = Append(@, "sdk")]
  /\ pc' = [pc EXCEPT ![j] = "raw_open"]
  /\ UNCHANGED <<harnessVars, env, returned, entry, fileVars, parsed, pptx_path, rd>>

\* AfterRest with the second failure swallowed: an empty text is returned
\* where generate raises
AfterRest_swallowed(j, outcome, status_code, text) ==
  /\ gen' = [gen EXCEPT ![j].attempts = Append(@, "rest"), ![j].rest_raised = outcome.raised,
                        ![j].rest_status = status_code, ![j].rest_text = text]
  /\ llm_out' = [llm_out EXCEPT ![j] = IF outcome.raised THEN NoText ELSE outcome.text]
  /\ pc' = [pc EXCEPT ![j] = "raw_open"]

\* where generate goes after the REST attempt; status_code is the status of
\* the answer (0 when requests.post raised) and text what the chain of tests
\* of the 200 branch extracted from it
AfterRest(j, outcome, status_code, text) ==
  IF outcome.raised
  THEN /\ gen' = [gen EXCEPT ![j].attempts = Append(@, "rest"), ![j].rest_raised = TRUE,
                             ![j].rest_status = status_code, ![j].rest_text = text,
                             ![j].error = <<"All generation methods failed. SDK: ", "sdk_error", ", REST: ">> \o outcome.text]
       /\ pc' = [pc EXCEPT ![j] = "error_raw_open"]
       /\ UNCHANGED llm_out
  ELSE /\ gen' = [gen EXCEPT ![j].attempts = Append(@, "rest"), ![j].rest_status = status_code, ![j].rest_text = text]
       /\ llm_out' = [llm_out EXCEPT ![j] = outcome.text]
       /\ pc' = [pc EXCEPT ![j] = "raw_open"]

\* generate: _try_rest_generate raises before it has a response
generate_rest_raises(j) ==
  /\ pc[j] = "rest"
  /\ AfterRest(j, TextRaise(<<"REST request failed: ", "rest_error">>), 0, NoText)
  /\ UNCHANGED <<harnessVars, env, returned, entry, fileVars, parsed, pptx_path, rd>>

\* generate: _try_rest_generate gets a response
generate_rest_responds(j) ==
  /\ pc[j] = "rest"
  /\ \E status_code \in RestStatusCodes, result \in RestResults :
       AfterRest(j, rest_text_or_diagnostic(status_code, result), status_code,
                 IF status_code = 200 THEN rest_extract_text(result) ELSE NoText)
  /\ UNCHANGED <<harnessVars, env, returned, entry, fileVars, parsed, pptx_path, rd>>

\* except Exception: safe_write(raw_path, error_msg) opens raw_llm.txt
pj_error_raw_open(j) ==
  /\ pc[j] = "error_raw_open"
  /\ raw_llm' = [raw_llm EXCEPT ![j] = safe_write_open(NoText)]
  /\ pc' = [pc EXCEPT ![j] = "error_raw_write"]
  /\ UNCHANGED <<harnessVars, env, returned, entry, status_json, pitch_json, pptx_file, status_log, gen, llm_out, parsed, pptx_path, rd>>

pj_error_raw_write(j) ==
  /\ pc[j] = "error_raw_write"
  /\ raw_llm' = [raw_llm EXCEPT ![j] = safe_write_close(ErrorMsg(gen[j].error))]
  /\ pc' = [pc EXCEPT ![j] = "error_status_open"]
  /\ UNCHANGED <<harnessVars, env, returned, entry, status_json, pitch_json, pptx_file, status_log, gen, llm_out, parsed, pptx_path, rd>>

\* except Exception: the error status
pj_error_status_open(j) ==
  /\ pc[j] = "error_status_open"
  /\ status_json' = [status_json EXCEPT ![j] = safe_write_open(NoData)]
  /\ pc' = [pc EXCEPT ![j] = "error_status_write"]
  /\ UNCHANGED <<harnessVars, env, returned, entry, raw_llm, pitch_json, pptx_file, status_log, gen, llm_out, parsed, pptx_path, rd>>

\* pj_error_status_write without the return that ends the except block:
\* control falls through to the code after it
pj_error_status_write_no_return(j) ==
  /\ pc[j] = "error_status_write"
  /\ status_json' = [status_json EXCEPT ![j] = safe_write_close(StatusError(j, ErrorMsg(gen[j].error)))]
  /\ status_log' = [status_log EXCEPT ![j] = Append(@, "error")]
  /\ pc' = [pc EXCEPT ![j] = "raw_open"]
  /\ UNCHANGED <<harnessVars, env, returned, entry, raw_llm, pitch_json, pptx_file, gen, llm_out, parsed, pptx_path, rd>>

pj_error_status_write(j) ==
  /\ pc[j] = "error_status_write"
  /\ status_json' = [status_json EXCEPT ![j] = safe_write_close(StatusError(j, ErrorMsg(gen[j].error)))]
  /\ status_log' = [status_log EXCEPT ![j] = Append(@, "error")]
  /\ pc' = [pc EXCEPT ![j] = "returned_error"]
  /\ UNCHANGED <<harnessVars, env, returned, entry, raw_llm, pitch_json, pptx_file, gen, llm_out, parsed, pptx_path, rd>>

\* pj_raw_open with the write of raw_llm.txt left for later: the parse starts
\* before the raw text is persisted
pj_raw_open_deferred(j) ==
  /\ pc[j] = "raw_open"
  /\ pc' = [pc EXCEPT ![j] = "parse"]
  /\ UNCHANGED <<harnessVars, env, returned, entry, fileVars, gen, llm_out, parsed, pptx_path, rd>>

\* safe_write(raw_path, llm_out)
pj_raw_open(j) ==
  /\ pc[j] = "raw_open"
  /\ raw_llm' = [raw_llm EXCEPT ![j] = safe_write_open(NoText)]
  /\ pc' = [pc EXCEPT ![j] = "raw_write"]
  /\ UNCHANGED <<harnessVars, env, returned, entry, status_json, pitch_json, pptx_file, status_log, gen, llm_out, parsed, pptx_path, rd>>

pj_raw_write(j) ==
  /\ pc[j] = "raw_write"
  /\ raw_llm' = [raw_llm EXCEPT ![j] = safe_write_close(llm_out[j])]
  /\ pc' = [pc EXCEPT ![j] = "parse"]
  /\ UNCHANGED <<harnessVars, env, returned, entry, status_json, pitch_json, pptx_file, status_log, gen, llm_out, parsed, pptx_path, rd>>

\* parsed = parse_llm_response(llm_out); an exception leaves process_job
pj_parse(j) ==
  /\ pc[j] = "parse"
  /\ LET r == parse_llm_response(llm_out[j]) IN
       IF r.raised
       THEN pc' = [pc EXCEPT ![j] = "crashed"] /\ UNCHANGED parsed
       ELSE pc' = [pc EXCEPT ![j] = "pitch_open"] /\ parsed' = [parsed EXCEPT ![j] = r.v]
  /\ UNCHANGED <<harnessVars, env, returned, entry, fileVars, gen, llm_out, pptx_path, rd>>

\* safe_write(pitch_path, json.dumps(parsed, ...))
pj_pitch_open(j) ==
  /\ pc[j] = "pitch_open"
  /\ pitch_json' = [pitch_json EXCEPT ![j] = safe_write_open(NoText)]
  /\ pc' = [pc EXCEPT ![j] = "pitch_write"]
  /\ UNCHANGED <<harnessVars, env, returned, entry, status_json, raw_llm, pptx_file, status_log, gen, llm_out, parsed, pptx_path, rd>>

\* the write; of the texts process_job writes, only this one can hold a
\* character UTF-8 cannot encode, and then the exception leaves process_job
pj_pitch_write(j) ==
  /\ pc[j] = "pitch_write"
  /\ LET content == json_dumps_indent(parsed[j], 0) IN
       IF Encodable(content)
       THEN /\ pitch_json' = [pitch_json EXCEPT ![j] = safe_write_close(content)]
            /\ pc' = [pc EXCEPT ![j] = "pptx"]
       ELSE /\ UNCHANGED pitch_json
            /\ pc' = [pc EXCEPT ![j] = "crashed"]
  /\ UNCHANGED <<harnessVars, env, returned, entry, status_json, raw_llm, pptx_file, status_log, gen, llm_out, parsed, pptx_path, rd>>

\* the PPTX block: the guard, then create_pptx_from_slides
pj_pptx(j) ==
  /\ pc[j] = "pptx"
  /\ IF WantsPptx(parsed[j])
     THEN \E lib_raises \in BOOLEAN :
            LET path == create_pptx_from_slides(Get(parsed[j], Key("slides")).a, lib_raises) IN
              /\ pptx_path' = [pptx_path EXCEPT ![j] = path]
              /\ pptx_file' = [pptx_file EXCEPT ![j] = @ \/ path]
     ELSE UNCHANGED <<pptx_path, pptx_file>>
  /\ pc' = [pc EXCEPT ![j] = "done_status_open"]
  /\ UNCHANGED <<harnessVars, env, returned, entry, status_json, raw_llm, pitch_json, status_log, gen, llm_out, parsed, rd>>

\* the final status
pj_done_status_open(j) ==
  /\ pc[j] = "done_status_open"
  /\ status_json' = [status_json EXCEPT ![j] = safe_write_open(NoData)]
  /\ pc' = [pc EXCEPT ![j] = "done_status_write"]
  /\ UNCHANGED <<harnessVars, env, returned, entry, raw_llm, pitch_json, pptx_file, status_log, gen, llm_out, parsed, pptx_path, rd>>

pj_done_status_write(j) ==
  /\ pc[j] = "done_status_write"
  /\ status_json' = [status_json EXCEPT ![j] = safe_write_close(StatusDone(j, pptx_path[j]))]
  /\ status_log' = [status_log EXCEPT ![j] = Append(@, "done")]
  /\ pc' = [pc EXCEPT ![j] = "returned_done"]
  /\ UNCHANGED <<harnessVars, env, returned, entry, raw_llm, pitch_json, pptx_file, gen, llm_out, parsed, pptx_path, rd>>

(***************************************************************************)
(* main.py get_job_status and app/main.py get_status: one poll at a time,  *)
(* its steps interleaved with the job's.  A job is polled through the      *)
(* application that created it.                                            *)
(***************************************************************************)
Respond(code, body) == [RdIdle EXCEPT !.impl = rd.impl, !.job = rd.job, !.known = rd.known, !.code = code, !.body = body]

\* main.py get_job_status: status_file.exists(), else 404
get_job_status_exists(j) ==
  /\ rd.pc = "idle"
  /\ entry[j] # "app"
  /\ rd' = IF Exists(status_json[j])
           THEN [RdIdle EXCEPT !.pc = "load", !.impl = "main", !.job = j, !.known = (j \in returned)]
           ELSE [RdIdle EXCEPT !.impl = "main", !.job = j, !.known = (j \in returned), !.code = 404]
  /\ UNCHANGED <<harnessVars, env, jobVars, fileVars>>

\* main.py get_job_status: json.load(f); any exception becomes a 500
get_job_status_load ==
  /\ rd.pc = "load" /\ rd.impl = "main"
  /\ rd' = IF status_json[rd.job].st = "full"
           THEN [rd EXCEPT !.pc = "url", !.status_data = status_json[rd.job].data]
           ELSE Respond(500, NoData)
  /\ UNCHANGED <<harnessVars, env, jobVars, fileVars>>

\* main.py get_job_status: the first pptx_file.exists(), for download_url
get_job_status_url ==
  /\ rd.pc = "url"
  /\ rd' = [rd EXCEPT !.pc = "return", !.download_url = pptx_file[rd.job]]
  /\ UNCHANGED <<harnessVars, env, jobVars, fileVars>>

\* main.py get_job_status: the snapshot, with the second pptx_file.exists()
get_job_status_return ==
  /\ rd.pc = "return"
  /\ rd' = Respond(200, JObj(<< <<Key("job_id"), Str(rd.job)>>,
                                <<Key("status"), IF HasKey(rd.status_data, Key("status")) THEN Get(rd.status_data, Key("status")) ELSE Str("unknown")>>,
                                <<Key("download_url"), IF rd.download_url THEN Str("/static/<job_id>/pitch.pptx") ELSE JNull>>,
                                <<Key("has_pptx"), JBool(pptx_file[rd.job])>> >>))
  /\ UNCHANGED <<harnessVars, env, jobVars, fileVars>>

\* app/main.py get_status: status_file.exists(), else 404
get_status_exists(j) ==
  /\ rd.pc = "idle"
  /\ entry[j] # "main"
  /\ rd' = IF Exists(status_json[j])
           THEN [RdIdle EXCEPT !.pc = "load", !.impl = "app", !.job = j, !.known = (j \in returned)]
           ELSE [RdIdle EXCEPT !.impl = "app", !.job = j, !.known = (j \in returned), !.code = 404]
  /\ UNCHANGED <<harnessVars, env, jobVars, fileVars>>

\* app/main.py get_status: return json.load(f); an exception is an unhandled 500
get_status_load ==
  /\ rd.pc = "load" /\ rd.impl = "app"
  /\ rd' = IF status_json[rd.job].st = "full"
           THEN Respond(200, status_json[rd.job].data)
           ELSE Respond(500, NoData)
  /\ UNCHANGED <<harnessVars, env, jobVars, fileVars>>

(***************************************************************************)
(* The normaliser on its own: every text of Texts is handed to it          *)
(***************************************************************************)
ParseText ==
  /\ phase = "ready"
  /\ res' = parse_llm_response(raw)
  /\ cut' = partial_json(raw)
  /\ phase' = "parsed"
  /\ UNCHANGED <<raw, again, env, jobVars, fileVars, rd>>

\* the value returned is serialised as process_job serialises it and the text
\* is handed to parse_llm_response again
ReparseText ==
  /\ phase = "parsed"
  /\ again' = parse_llm_response(json_dumps_indent(res.v, 0))
  /\ phase' = "reparsed"
  /\ UNCHANGED <<raw, res, cut, env, jobVars, fileVars, rd>>

InitParse ==
  /\ raw \in Texts /\ res = Return(JNull) /\ phase = "ready" /\ cut = << >> /\ again = Return(JNull)
  /\ env = [model |-> SomeStr(<<"gemini">>), pptx_available |-> TRUE]
  /\ JobsInit

NextParse == ParseText \/ ReparseText

SpecParse == InitParse /\ [][NextParse]_vars

(***************************************************************************)
(* The system: the entry points, one job, one poller                       *)
(***************************************************************************)
Next ==
  \/ \E j \in JobIds :
       \/ create_pitch_main(j)
       \/ create_pitch_app_open(j)
       \/ create_pitch_app_write(j)
       \/ create_pitch_app_return(j)
       \/ process_job_script(j)
       \/ pj_running_open(j)
       \/ pj_running_write(j)
       \/ generate_start(j)
       \/ generate_sdk_raises(j)
       \/ generate_sdk_returns(j)
       \/ generate_rest_raises(j)
       \/ generate_rest_responds(j)
       \/ pj_error_raw_open(j)
       \/ pj_error_raw_write(j)
       \/ pj_error_status_open(j)
       \/ pj_error_status_write(j)
       \/ pj_raw_open(j)
       \/ pj_raw_write(j)
       \/ pj_parse(j)
       \/ pj_pitch_open(j)
       \/ pj_pitch_write(j)
       \/ pj_pptx(j)
       \/ pj_done_status_open(j)
       \/ pj_done_status_write(j)
       \/ get_job_status_exists(j)
       \/ get_status_exists(j)
  \/ get_job_status_load
  \/ get_job_status_url
  \/ get_job_status_return
  \/ get_status_load

Spec == Init /\ [][Next]_vars

(***************************************************************************)
(* Properties of the normaliser (under SpecParse)                          *)
(***************************************************************************)
\* the four kinds of record parse_llm_response is documented to return
IsDiagnostic(v) == IsDict(v) /\ HasKey(v, KeyDebugResponse)

IsPartial(v) == IsDict(v) /\ HasKey(v, KeyNote)

IsUnparsable(v) == IsDict(v) /\ HasKey(v, KeyRawResponse)

IsStructured(v) == IsDict(v) /\ ~HasKey(v, KeyDebugResponse) /\ ~HasKey(v, KeyNote) /\ ~HasKey(v, KeyRawResponse)

\* C1: for every raw text parse_llm_response returns without raising, and the
\* value is exactly one of the four variants: an object tagged _debug_response,
\* an object tagged _note, an object tagged raw_response, or an object with none
\* of these tags; valid JSON that is not an object included.
C1_EveryTextYieldsOneVariant ==
  phase = "parsed" =>
    /\ ~res.raised
    /\ Cardinality({k \in {"diagnostic", "partial", "unparsable", "structured"} :
                      \/ k = "diagnostic" /\ IsDiagnostic(res.v)
                      \/ k = "partial" /\ IsPartial(res.v)
                      \/ k = "unparsable" /\ IsUnparsable(res.v)
                      \/ k = "structured" /\ IsStructured(res.v)}) = 1

\* the raw text is a valid JSON object with a top-level key prefixed _debug
HasDebugKey(text) ==
  LET r == json_loads(text) IN r.ok /\ IsDict(r.v) /\ \E k \in Keys(r.v) : StartsWith(k, <<DEBUG>>)

\* C9: a raw text that is a valid JSON object with a top-level key prefixed
\* _debug is returned as the Diagnostic record wrapping that object, whatever
\* else the object holds (a non-empty slides list included).
C9_DebugKeyYieldsDiagnostic ==
  (phase = "parsed" /\ HasDebugKey(raw)) =>
    res = Return(JObj(<< <<KeyDebugResponse, json_loads(raw).v>>, << <<"note">>, JStr(<<"LLM returned debug information">>) >> >>))

\* an opening fence, bare or with a language tag, on a line of its own
FenceOpenings == {<<FENCE, NL>>, <<FENCE, "json", NL>>, <<FENCE, "py", NL>>}

\* the fenced texts, each with the object it encloses
FencedObjects == {[text |-> f \o json_dumps(o) \o <<NL, FENCE>>, object |-> o] : f \in FenceOpenings, o \in Objects}

\* C10: a text made of an opening code fence (with or without a language tag),
\* the JSON text of an object O and a closing fence is parsed to O itself.
C10_FencedObjectYieldsObject ==
  phase = "parsed" => \A fenced \in FencedObjects : raw = fenced.text => res = Return(fenced.object)

\* the depth, string mode and pending escape after the first i symbols of s:
\* a backslash escapes the next symbol, an unescaped quote toggles string mode,
\* an unescaped brace outside a string changes the depth
RECURSIVE LexState(_, _)
LexState(s, i) ==
  IF i = 0 THEN [depth |-> 0, in_string |-> FALSE, escaped |-> FALSE]
  ELSE LET p == LexState(s, i - 1) IN
    IF p.escaped THEN [p EXCEPT !.escaped = FALSE]
    ELSE IF s[i] = BSLASH THEN [p EXCEPT !.escaped = TRUE]
    ELSE IF s[i] = QUOTE THEN [p EXCEPT !.in_string = ~@]
    ELSE IF ~p.in_string /\ s[i] = LBRACE THEN [p EXCEPT !.depth = @ + 1]
    ELSE IF ~p.in_string /\ s[i] = RBRACE THEN [p EXCEPT !.depth = @ - 1]
    ELSE p

\* the offsets of s at which the depth is back at zero
ZeroDepthOffsets(s) == {i \in 1..Len(s) : LexState(s, i).depth = 0}

\* C11: the brace counter selects the substring from the first opening brace to
\* the first offset where the depth is back at zero, braces inside strings not
\* counted and escaped quotes not toggling string mode; for the text
\* {"a": "va}lue", "b": 1} trailing garbage the selection is
\* {"a": "va}lue", "b": 1} and the record returned is that object.
C11_BraceCounterSelectsBalancedPrefix ==
  phase = "parsed" =>
    /\ Find(raw, LBRACE) = 0 => cut = << >>
    /\ Find(raw, LBRACE) # 0 =>
         LET s == From(raw, Find(raw, LBRACE)) IN
           cut = IF ZeroDepthOffsets(s) = {} THEN << >>
                 ELSE SubSeq(s, 1, CHOOSE i \in ZeroDepthOffsets(s) : \A k \in ZeroDepthOffsets(s) : i <= k)
    /\ raw = QuotedBraceText =>
         /\ cut = QuotedBraceObject
         /\ res = Return(json_loads(QuotedBraceObject).v)

C11_Witness ==
  /\ phase = "parsed"
  /\ raw = QuotedBraceText
  /\ cut = QuotedBraceObject
  /\ IsDict(res.v) /\ Get(res.v, <<"a">>) = JStr(<<"va", RBRACE, "lue">>)

\* no step of parse_llm_response recovers JSON from the text
NothingRecovered(text) ==
  /\ ~DebugShortCircuit(text).hit
  /\ ~DirectParse(text).hit
  /\ ~CleanedParse(CleanOutput(text)).hit
  /\ ~RegexExtract(CleanOutput(text)).hit
  /\ ~PartialRecover(text).hit

\* C12: when no step recovers JSON the record returned is Unparsable:
\* raw_response is the input unchanged, response_length its number of
\* characters, response_preview the input itself up to 500 characters and
\* otherwise its first 500 characters followed by "...".
C12_FallbackKeepsTextLengthPreview ==
  (phase = "parsed" /\ NothingRecovered(raw)) =>
    /\ ~res.raised /\ IsUnparsable(res.v)
    /\ Get(res.v, KeyRawResponse) = JStr(raw)
    /\ Get(res.v, <<"response_length">>) = JNum(CharLen(raw))
    /\ Get(res.v, <<"response_preview">>) =
         JStr(IF CharLen(raw) <= PreviewLimit THEN raw ELSE Append(CharPrefix(raw, PreviewLimit), "..."))
    /\ raw = UnterminatedText => Get(res.v, <<"response_length">>) = JNum(28)
    /\ raw = <<LBRACE, XRun(499)>> => Get(res.v, <<"response_preview">>) = JStr(raw)
    /\ raw = <<LBRACE, XRun(500)>> =>
         /\ Get(res.v, <<"response_preview">>) = JStr(<<LBRACE, XRun(499), "...">>)
         /\ Get(res.v, <<"response_length">>) = JNum(501)
    /\ raw = <<LBRACE, QUOTE, XRun(499)>> => Get(res.v, <<"response_preview">>) = JStr(<<LBRACE, QUOTE, XRun(498), "...">>)

C12_Witness ==
  /\ phase = "parsed"
  /\ raw = <<LBRACE, XRun(501)>>
  /\ NothingRecovered(raw)
  /\ Get(res.v, <<"response_preview">>) = JStr(<<LBRACE, XRun(499), "...">>)
  /\ Get(res.v, <<"response_length">>) = JNum(502)

\* C13: a fully-structured record that parse_llm_response returned, serialised
\* to JSON and parsed again, comes back as a fully-structured record
\* identical to it.
C13_StructuredRecordRoundTrips ==
  (phase = "reparsed" /\ IsStructured(res.v)) => again = Return(res.v)

(***************************************************************************)
(* Properties of the job, the model client and the status endpoints        *)
(* (under Spec)                                                            *)
(***************************************************************************)
\* process_job has ended: it returned, or an exception left it
Finished(j) == pc[j] \in {"returned_done", "returned_error", "crashed"}

\* generate has ended, by a return or by raising
GenerateEnded(j) == pc[j] \notin {"none", "scheduled", "app_write", "app_enqueue", "running_write", "generate", "sdk", "rest"}

\* generate raised: the configuration error, or both transport paths failed
GenerateRaised(j) == gen[j].config_raised \/ (gen[j].sdk_raised /\ gen[j].rest_raised)

\* the order of the statuses: queued, then running, then done or error
Rank(status) == CASE status = "queued" -> 0 [] status = "running" -> 1 [] OTHER -> 2

\* C2: whenever generate returned a text, process_job ends with the persisted
\* status done; the status error is written only when generate raised.
C2_ReturnedTextEndsDone ==
  \A j \in JobIds :
    /\ (Finished(j) /\ ~GenerateRaised(j)) =>
         /\ pc[j] = "returned_done"
         /\ status_json[j] = Full(StatusDone(j, pptx_path[j]))
    /\ Contains(status_log[j], "error") => GenerateRaised(j)

\* C3: the persisted status of a job only moves forward along queued, running,
\* done or error: the statuses written are in strictly increasing order, so
\* none is written after done or error, and a complete status.json holds the
\* last one written.
C3_StatusMovesForward ==
  \A j \in JobIds :
    /\ \A a, b \in 1..Len(status_log[j]) : a < b => Rank(status_log[j][a]) < Rank(status_log[j][b])
    /\ status_json[j].st = "full" =>
         /\ status_log[j] # << >>
         /\ Get(status_json[j].data, Key("status")) = Str(status_log[j][Len(status_log[j])])

C3_Witness ==
  \E j \in JobIds : status_log[j] = <<"queued", "running", "done">> /\ pc[j] = "returned_done"

\* C4: when the SDK path and the REST path both raise, the execution ends with
\* the status error and a non-empty error message in the record; pitch.json is
\* never written and no presentation is produced.
C4_BothPathsFailEndsError ==
  \A j \in JobIds :
    (gen[j].sdk_raised /\ gen[j].rest_raised) =>
      /\ ~Exists(pitch_json[j])
      /\ ~pptx_file[j]
      /\ pc[j] \in {"error_raw_open", "error_raw_write", "error_status_open", "error_status_write", "returned_error"}
      /\ Finished(j) =>
           /\ status_json[j].st = "full"
           /\ Get(status_json[j].data, Key("status")) = Str("error")
           /\ Get(status_json[j].data, Key("error")).t = "str"
           /\ Get(status_json[j].data, Key("error")).s # << >>

C4_Witness ==
  \E j \in JobIds : gen[j].sdk_raised /\ gen[j].rest_raised /\ pc[j] = "returned_error"

\* C5: a status read concurrent with a status write never observes a
\* half-written record: no read finds status.json empty or truncated, so no
\* poll fails on its content.
C5_ReadsSeeCompleteSnapshots == rd.code # 500

\* C6: from the moment submit has returned a job id every status poll of it
\* gets a snapshot; 404 is answered only for ids submit never returned.
C6_NotFoundOnlyForUnknownIds == ~(rd.code = 404 /\ rd.known)

\* C7: with GEMINI_MODEL unset or empty generate fails fast with a
\* configuration error: neither the SDK call nor the REST call is attempted.
C7_UnsetModelFailsFast ==
  \A j \in JobIds :
    (env.model.none \/ env.model.s = << >>) =>
      /\ gen[j].attempts = << >>
      /\ GenerateEnded(j) => gen[j].config_raised

\* C8: one call of generate attempts the SDK path exactly once and first, the
\* REST path at most once and only after the SDK path raised; when the SDK
\* path returns, text or diagnostic, the REST path is not attempted; there are
\* never more than two attempts.
C8_SdkFirstRestOnlyAfterRaise ==
  \A j \in JobIds :
    /\ gen[j].attempts \in {<< >>, <<"sdk">>, <<"sdk", "rest">>}
    /\ Contains(gen[j].attempts, "rest") <=> (gen[j].sdk_raised /\ pc[j] # "rest")
    /\ GenerateEnded(j) => gen[j].attempts # << >>

C8_Witness ==
  \E j \in JobIds : /\ gen[j].attempts = <<"sdk">>
                    /\ ~gen[j].sdk_raised
                    /\ llm_out[j] = DiagStop
                    /\ Finished(j)

\* the diagnostic strings generate can return for a job, given the model name
\* of its generate call
DiagnosticStrings(model) ==
  {DiagBlocked, DiagStop, DiagSafety}
    \cup {DiagNoContent(model, h, n) : h \in BOOLEAN, n \in 0..1}
    \cup {DiagRestEmpty(n, b) : n \in 0..1, b \in BOOLEAN}

GotDiagnostic(j) == GenerateEnded(j) /\ ~GenerateRaised(j) /\ llm_out[j] \in DiagnosticStrings(gen[j].model)

\* C14: every diagnostic string generate returns in place of model text is
\* classified by parse_llm_response as a Diagnostic record, and the job ends
\* with status done and no presentation: it neither crashes nor ends in error.
C14_DiagnosticStringEndsDoneWithoutArtifact ==
  \A j \in JobIds :
    GotDiagnostic(j) =>
      /\ pc[j] \notin {"crashed", "returned_error"}
      /\ parse_llm_response(llm_out[j]) = Return(JObj(<< <<KeyDebugResponse, json_loads(llm_out[j]).v>>, << <<"note">>, JStr(<<"LLM returned debug information">>) >> >>))
      /\ pc[j] \in {"pitch_open", "pitch_write", "pptx", "done_status_open", "done_status_write", "returned_done"} => IsDiagnostic(parsed[j])
      /\ ~pptx_file[j] /\ ~pptx_path[j]
      /\ Finished(j) => status_json[j] = Full(StatusDone(j, FALSE))

C14_Witness ==
  \E j \in JobIds : GotDiagnostic(j) /\ llm_out[j] = DiagSafety /\ pc[j] = "returned_done"

\* a slide entry with a title and at least one bullet
CompleteSlide(slide_data) ==
  /\ IsDict(slide_data)
  /\ HasKey(slide_data, Key("title"))
  /\ Get(slide_data, Key("bullets")).t = "arr"
  /\ Get(slide_data, Key("bullets")).a # << >>

\* C15: a presentation is produced for a job (has_pptx true) only if the
\* normalised record is the fully-structured variant and its slides is a
\* non-empty list in which every entry has a title and at least one bullet.
C15_ArtifactOnlyForCompleteSlides ==
  \A j \in JobIds :
    (pptx_path[j] \/ pptx_file[j] \/ (status_json[j].st = "full" /\ Get(status_json[j].data, Key("has_pptx")) = JBool(TRUE))) =>
      /\ IsStructured(parsed[j])
      /\ Get(parsed[j], Key("slides")).t = "arr"
      /\ Get(parsed[j], Key("slides")).a # << >>
      /\ \A i \in 1..Len(Get(parsed[j], Key("slides")).a) : CompleteSlide(Get(parsed[j], Key("slides")).a[i])

\* create_pptx_from_slides was called for the job and has come back
RendererCalled(j) ==
  /\ pitch_json[j].st = "full"
  /\ pc[j] # "pptx"
  /\ WantsPptx(parsed[j])

C17_ErrorSnapshotCarriesMessage ==
  (rd.code = 200 /\ Get(rd.body, Key("status")) = Str("error")) =>
    /\ HasKey(rd.body, Key("error"))
    /\ Get(rd.body, Key("error")) = Get(status_json[rd.job].data, Key("error"))

\* prose without braces before the object, after it, or on both sides
ProseAround == {<< <<"a", SP>>, << >> >>, << << >>, <<SP, "a">> >>, << <<"a", SP>>, <<SP, "a">> >>}

\* the texts made of one object in prose, each with the object
ProseObjects == {[text |-> pq[1] \o json_dumps(o) \o pq[2], object |-> o] : pq \in ProseAround, o \in Objects}

\* C18: for a text that is exactly one valid JSON object O, of any nesting
\* depth, inside prose without braces, the result is a record equal to the
\* whole of O, never a nested sub-object of O.
C18_ObjectInProseYieldsWholeObject ==
  phase = "parsed" => \A wrapped \in ProseObjects : raw = wrapped.text => res = Return(wrapped.object)

\* C19: for a text that is a truncated prefix of a JSON pitch object, the
\* outermost object never closed, the result is a Partial or an Unparsable
\* record; it is never a fully-structured object that is only a nested
\* fragment of the input, such as a single slide.
C19_TruncatedObjectYieldsPartialOrUnparsable ==
  (phase = "parsed" /\ raw \in TruncatedTexts) =>
    /\ ~res.raised
    /\ IsPartial(res.v) \/ IsUnparsable(res.v)

\* the REST path got HTTP 200 and found no text in the body
RestAnsweredEmpty(j) == gen[j].rest_status = 200 /\ gen[j].rest_text = NoText

\* C20: when the REST path receives HTTP 200 with no extractable text
\* (candidates missing or empty, a candidate without content, parts or text),
\* _try_rest_generate returns a diagnostic string and does not raise, so
\* generate returns that diagnostic instead of failing.
C20_RestEmptyAnswerYieldsDiagnostic ==
  \A j \in JobIds :
    RestAnsweredEmpty(j) =>
      /\ ~gen[j].rest_raised
      /\ ~GenerateRaised(j)
      /\ llm_out[j] \in {DiagRestEmpty(n, b) : n \in 0..1, b \in BOOLEAN}

\* C21: an execution of process_job that has written the status running
\* writes a terminal status before it ends, whatever generate returns or
\* raises: no execution ends with the job left in running.
C21_NoExecutionEndsInRunning ==
  \A j \in JobIds :
    (Finished(j) /\ Contains(status_log[j], "running")) =>
      /\ status_log[j][Len(status_log[j])] \in {"done", "error"}
      /\ status_json[j].st = "full"
      /\ Get(status_json[j].data, Key("status")) \in {Str("done"), Str("error")}

\* status.json holds a complete record whose status is done
PersistedDone(j) == status_json[j].st = "full" /\ Get(status_json[j].data, Key("status")) = Str("done")

\* C22: within one run the raw text is persisted before the parse, the
\* normalised record and the presentation (if any) before the terminal
\* status; so whoever reads the status done finds raw_llm.txt and pitch.json
\* complete, and pitch.pptx present whenever the record says has_pptx true.
C22_WritesPrecedeTerminalStatus ==
  \A j \in JobIds :
    /\ pc[j] \in {"parse", "pitch_open", "pitch_write", "pptx", "done_status_open", "done_status_write", "returned_done", "crashed"} =>
         raw_llm[j] = Full(llm_out[j])
    /\ pc[j] \in {"pptx", "done_status_open", "done_status_write", "returned_done"} =>
         pitch_json[j] = Full(json_dumps_indent(parsed[j], 0))
    /\ pc[j] \in {"done_status_open", "done_status_write", "returned_done"} => (pptx_path[j] => pptx_file[j])
    /\ (PersistedDone(j) \/ Contains(status_log[j], "done")) =>
         /\ raw_llm[j].st = "full"
         /\ pitch_json[j].st = "full"
         /\ Get(status_json[j].data, Key("has_pptx")) = JBool(TRUE) => pptx_file[j]

C22_Witness ==
  \E j \in JobIds :
    /\ status_json[j] = Full(StatusDone(j, TRUE))
    /\ pptx_file[j] /\ raw_llm[j].st = "full" /\ pitch_json[j].st = "full"
    /\ rd.job = j /\ rd.code = 200 /\ Get(rd.body, Key("status")) = Str("done")

\* C23: a status snapshot reports a presentation (has_pptx true, a download
\* url that is not null) only when the status in the same snapshot is done;
\* no interleaving of a poll with a running job yields running together
\* with has_pptx true.
C23_ArtifactReportedOnlyWhenDone ==
  (rd.code = 200 /\ (Get(rd.body, Key("has_pptx")) = JBool(TRUE) \/ Get(rd.body, Key("download_url")).t = "str")) =>
    Get(rd.body, Key("status")) = Str("done")

\* C24: in every persisted status record the error field is present exactly
\* when the status is error, and finished_at is present exactly when the
\* status is terminal (done or error).
C24_ErrorAndFinishedAtFollowStatus ==
  \A j \in JobIds :
    status_json[j].st = "full" =>
      LET record == status_json[j].data IN
        /\ HasKey(record, Key("status"))
        /\ HasKey(record, Key("error")) <=> Get(record, Key("status")) = Str("error")
        /\ HasKey(record, Key("finished_at")) <=> Get(record, Key("status")) \in {Str("done"), Str("error")}

C24_Witness ==
  \E j \in JobIds :
    /\ status_log[j] = <<"queued", "running", "error">>
    /\ status_json[j].st = "full"
    /\ HasKey(status_json[j].data, Key("error")) /\ HasKey(status_json[j].data, Key("finished_at"))

====
